---- MODULE Spec2Model ----
(***************************************************************************)
(* FeatherFlow: the model collection of sql_engine/sql_model.rs            *)
(* (SqlModelCollection), its dependency-graph build and depth assignment.  *)
(*                                                                         *)
(* A record (SqlModel) is modelled by the fields the graph build reads or  *)
(* writes: name, schema, referenced_tables, upstream_models,               *)
(* downstream_models, external_sources, depth.  Hash maps are functions    *)
(* whose DOMAIN is the key set; Option<usize> is an integer with NoDepth   *)
(* for None; Option<String> is a string with NoSchema for None.            *)
(***************************************************************************)
EXTENDS Integers, FiniteSets, Sequences, TLC

\* ------------------------------------------------------------------------
\* Bounded inputs
\* ------------------------------------------------------------------------

\* unique_ids of the SQL files ("model." + dotted relative path).
Ids == {"model.x.a", "model.y.b", "model.z.a"}

\* An id that is a key of another collection only.
ForeignIds == {"model.w.c"}

\* SqlModel.name is the file stem, the last component of the unique_id.
NameOf(id) == IF id = "model.y.b" THEN "b" ELSE "a"

\* The tags and the column names the YAML sidecar of the file gives.
TagsOf(id) == IF id = "model.y.b" THEN <<"daily", "core">> ELSE <<>>

ColumnsOf(id) == IF id = "model.y.b" THEN {"name", "id"} ELSE {}

NoSchema == "<none>"
NoDepth == -1

\* schema_name values a YAML sidecar (or an edit) can give a record.
Schemas == {NoSchema, "stg"}

\* Qualified names the SQL of a record can reference.
RefNames == {"public.a", "stg.a", "raw.x"}

\* Names an imports catalog can declare.
ImportNames == {"raw.x", "public.a"}

\* Largest referenced_tables set of a record.
MaxRefs == 2

\* Number of add_model / get_model_mut / load_source_definitions calls in
\* a behaviour of Spec.
MaxOps == 3

\* The same for SpecAll, which adds carried-over records and direct calls
\* of calculate_model_depths.
MaxOpsAll == 2

RefSets == {s \in SUBSET RefNames : Cardinality(s) <= MaxRefs}

\* ------------------------------------------------------------------------
\* State
\* ------------------------------------------------------------------------
VARIABLES
    models,           \* HashMap<String, SqlModel>
    child_map,        \* parent_id -> child_ids
    parent_map,       \* child_id -> parent_ids
    defined_imports,  \* HashSet<String>
    missing_imports,  \* model_id -> missing imports
    built,            \* build_dependency_graph returned and neither a
                      \* record nor the imports set changed since
    returned,         \* FALSE when that call never returns
    ops,              \* mutating calls left in this behaviour
    key_order,        \* the order self.models.keys() yields, NoOrder while
                      \* no call has iterated the map since a key went in
    rebuilt,          \* the last call was build_dependency_graph on a
                      \* collection unchanged since the build before it
    ast,              \* SqlModel.ast: the parsed statements of one file
    result,           \* what the call on ast or on fs returned
    fs                \* the directories and files the program reads

vars == <<models, child_map, parent_map, defined_imports, missing_imports,
          built, returned, ops, key_order, rebuilt, ast, result, fs>>

\* ------------------------------------------------------------------------
\* Helpers
\* ------------------------------------------------------------------------
EmptyMap == [k \in {} |-> {}]

\* All iteration orders of a key set (HashMap iteration order is arbitrary).
Orders(S) ==
    {o \in [1..Cardinality(S) -> S] : \A x \in S : \E i \in DOMAIN o : o[i] = x}

MaxOf(S) == CHOOSE x \in S : \A y \in S : y <= x

\* The iteration order of a map no call has iterated since its last new key.
NoOrder == <<"?">>

\* Mutant: every call iterates the keys in an order of its own.
IterationOrders_Rehashed(S, order) == Orders(S)

\* self.models.keys(): the order is a property of the table's layout, which
\* only the insertion of a new key changes; any order can come out of that.
IterationOrders(S, order) == IF order = NoOrder THEN Orders(S) ELSE {order}

\* No directory tree: the collection and the extractor read no file.
NoFs == [root |-> <<>>]

\* No call has returned.
NoResult == [fn |-> "none", table_names |-> <<>>, referenced_tables |-> {}]

\* HashMap<String, HashSet<String>> lookup with an absent key read as empty.
Get(map, k) == IF k \in DOMAIN map THEN map[k] ELSE {}

\* The record create_model returns, after extract_dependencies stored refs.
NewModel(id, schema, refs) ==
    [name |-> NameOf(id), schema |-> schema, referenced_tables |-> refs,
     upstream_models |-> {}, downstream_models |-> {},
     external_sources |-> {}, depth |-> NoDepth,
     tags |-> TagsOf(id), columns |-> ColumnsOf(id)]

\* format!("{}.{}", model.schema.as_deref().unwrap_or("public"), model.name)
TableName(m) ==
    (IF m.schema = NoSchema THEN "public" ELSE m.schema) \o "." \o m.name

Init ==
    /\ models = [k \in {} |-> NewModel("model.x.a", NoSchema, {})]
    /\ child_map = EmptyMap
    /\ parent_map = EmptyMap
    /\ defined_imports = {}
    /\ missing_imports = EmptyMap
    /\ built = FALSE
    /\ returned = TRUE
    /\ ops = MaxOps
    /\ key_order = NoOrder
    /\ rebuilt = FALSE
    /\ ast = <<>>
    /\ fs = NoFs
    /\ result = NoResult

\* ------------------------------------------------------------------------
\* add_model, get_model_mut, load_source_definitions
\* ------------------------------------------------------------------------

\* self.models.insert(id, model): last write wins.
Insert(id, m) ==
    [k \in DOMAIN models \cup {id} |-> IF k = id THEN m ELSE models[k]]

add_model(id, schema, refs) ==
    /\ returned
    /\ ops > 0
    /\ models' = Insert(id, NewModel(id, schema, refs))
    /\ key_order' = IF id \in DOMAIN models THEN key_order ELSE NoOrder
    /\ built' = FALSE
    /\ rebuilt' = FALSE
    /\ ops' = ops - 1
    /\ UNCHANGED <<ast, result, fs>>
    /\ UNCHANGED <<child_map, parent_map, defined_imports, missing_imports,
                   returned>>

\* add_model of a record taken from another collection, where a build
\* linked it to a record `up` of that collection.
add_carried_model(id, schema, refs, up) ==
    /\ returned
    /\ ops > 0
    /\ models' = Insert(id, [NewModel(id, schema, refs) EXCEPT
                                !.upstream_models = {up}])
    /\ key_order' = IF id \in DOMAIN models THEN key_order ELSE NoOrder
    /\ built' = FALSE
    /\ rebuilt' = FALSE
    /\ ops' = ops - 1
    /\ UNCHANGED <<ast, result, fs>>
    /\ UNCHANGED <<child_map, parent_map, defined_imports, missing_imports,
                   returned>>

\* get_model_mut(id) followed by an assignment to referenced_tables.
edit_referenced_tables(id, refs) ==
    /\ returned
    /\ ops > 0
    /\ id \in DOMAIN models
    /\ refs # models[id].referenced_tables
    /\ models' = [models EXCEPT ![id].referenced_tables = refs]
    /\ built' = FALSE
    /\ rebuilt' = FALSE
    /\ ops' = ops - 1
    /\ UNCHANGED <<ast, result, fs>>
    /\ UNCHANGED <<child_map, parent_map, defined_imports, missing_imports,
                   returned, key_order>>

\* get_model_mut(id) followed by an assignment to schema.
edit_schema(id, schema) ==
    /\ returned
    /\ ops > 0
    /\ id \in DOMAIN models
    /\ schema # models[id].schema
    /\ models' = [models EXCEPT ![id].schema = schema]
    /\ built' = FALSE
    /\ rebuilt' = FALSE
    /\ ops' = ops - 1
    /\ UNCHANGED <<ast, result, fs>>
    /\ UNCHANGED <<child_map, parent_map, defined_imports, missing_imports,
                   returned, key_order>>

\* load_source_definitions that also drops the recorded missing imports.
load_source_definitions_Forgetting(dir_exists, declared) ==
    /\ returned
    /\ ops > 0
    /\ defined_imports' = IF dir_exists THEN declared ELSE defined_imports
    /\ missing_imports' = EmptyMap
    /\ built' = FALSE
    /\ rebuilt' = FALSE
    /\ ops' = ops - 1
    /\ UNCHANGED <<ast, result, fs>>
    /\ UNCHANGED <<models, child_map, parent_map, returned, key_order>>

\* load_source_definitions: without an imports directory the call returns
\* before the clear; otherwise the set is cleared and refilled with the
\* names the catalog files declare.
load_source_definitions(dir_exists, declared) ==
    /\ returned
    /\ ops > 0
    /\ defined_imports' = IF dir_exists THEN declared ELSE defined_imports
    /\ built' = FALSE
    /\ rebuilt' = FALSE
    /\ ops' = ops - 1
    /\ UNCHANGED <<ast, result, fs>>
    /\ UNCHANGED <<models, child_map, parent_map, missing_imports, returned,
                   key_order>>

\* ------------------------------------------------------------------------
\* build_dependency_graph
\* ------------------------------------------------------------------------

\* build_table_to_model_map: one insert per id in iteration order, so the
\* last record of the order that has a key owns it.
build_table_to_model_map(ms, model_ids) ==
    [t \in {TableName(ms[id]) : id \in DOMAIN ms} |->
        LET idx == {i \in DOMAIN model_ids : TableName(ms[model_ids[i]]) = t}
        IN  model_ids[MaxOf(idx)]]

\* Mutant: a record that references a table of its own name, whatever the
\* schema, is paired with itself as well.
collect_model_relationships_ByName(ms, table_to_model) ==
    UNION {{<<id, table_to_model[r]>> :
               r \in ms[id].referenced_tables \cap DOMAIN table_to_model} :
           id \in DOMAIN ms}
    \cup {<<id, id>> : id \in {k \in DOMAIN ms :
            \E r \in ms[k].referenced_tables :
                r \in {"public." \o ms[k].name, "stg." \o ms[k].name}}}

\* collect_model_relationships: the (child, parent) pairs pushed.
collect_model_relationships(ms, table_to_model) ==
    UNION {{<<id, table_to_model[r]>> :
               r \in ms[id].referenced_tables \cap DOMAIN table_to_model} :
           id \in DOMAIN ms}

\* The child_map collect_model_relationships fills, starting from empty.
ChildMapOf(relationships) ==
    [p \in {x[2] : x \in relationships} |->
        {x[1] : x \in {y \in relationships : y[2] = p}}]

\* The parent_map collect_model_relationships fills, starting from empty.
ParentMapOf(relationships) ==
    [c \in {x[1] : x \in relationships} |->
        {x[2] : x \in {y \in relationships : y[1] = c}}]

\* update_model_dependency_relationships: inserts into the sets the records
\* already hold.
update_model_dependency_relationships(ms, relationships) ==
    [id \in DOMAIN ms |->
        [ms[id] EXCEPT
            !.upstream_models =
                @ \cup {x[2] : x \in {y \in relationships : y[1] = id}},
            !.downstream_models =
                @ \cup {x[1] : x \in {y \in relationships : y[2] = id}}]]

\* Mutant: a name the imports set declares counts as external even when a
\* record owns it.
ExternalOf_ImportsFirst(m, table_to_model) ==
    {r \in m.referenced_tables :
        r \notin DOMAIN table_to_model \/ r \in defined_imports}

\* identify_external_sources: (external_sources, missing_sources) of a record.
ExternalOf(m, table_to_model) ==
    {r \in m.referenced_tables : r \notin DOMAIN table_to_model}

\* Mutant: the imports set is not consulted.
MissingOf_IgnoreImports(external, imports) == external

MissingOf(external, imports) ==
    {r \in external : r \notin imports}

identify_external_sources(m, table_to_model, imports) ==
    LET external == ExternalOf(m, table_to_model)
    IN  <<external, MissingOf(external, imports)>>

\* Mutant: the key is inserted for every record.
HasMissing_Always(missing_sources) == TRUE

\* calculate_external_sources: a key enters missing_imports only with a
\* non-empty set.
HasMissing(missing_sources) == missing_sources # {}

MissingImportsOf(ms, table_to_model, imports) ==
    [id \in {k \in DOMAIN ms :
                HasMissing(identify_external_sources(ms[k], table_to_model,
                                                     imports)[2])} |->
        identify_external_sources(ms[id], table_to_model, imports)[2]]

calculate_external_sources(ms, table_to_model, imports) ==
    [id \in DOMAIN ms |->
        [ms[id] EXCEPT !.external_sources =
            identify_external_sources(ms[id], table_to_model, imports)[1]]]

\* ------------------------------------------------------------------------
\* calculate_model_depths
\* ------------------------------------------------------------------------

\* mark_source_nodes, after the reset of every depth to None.
IsSourceNode(m) == m.upstream_models = {}

mark_source_nodes(ms) ==
    [id \in DOMAIN ms |-> IF IsSourceNode(ms[id]) THEN 0 ELSE NoDepth]

\* check_model_dependencies: <<needs_update, max_upstream_depth>>.  An
\* upstream id that is no key of the collection is skipped; the loop breaks
\* at the first upstream record without a depth, and then the maximum is
\* not used.
UpstreamRecords(ms, id) == ms[id].upstream_models \cap DOMAIN ms

\* One upstream record with a depth is taken to be enough.
AllUpstreamsHaveDepths_Any(ms, d, id) ==
    \E u \in UpstreamRecords(ms, id) : d[u] # NoDepth

AllUpstreamsHaveDepths(ms, d, id) ==
    \A u \in UpstreamRecords(ms, id) : d[u] # NoDepth

\* Mutant: the smallest upstream depth is taken.
MinUpstreamDepth(ms, d, id) ==
    IF UpstreamRecords(ms, id) = {} THEN NoDepth
    ELSE CHOOSE x \in {d[u] : u \in UpstreamRecords(ms, id)} :
            \A y \in {d[u] : u \in UpstreamRecords(ms, id)} : x <= y

MaxUpstreamDepth(ms, d, id) ==
    IF UpstreamRecords(ms, id) = {} THEN NoDepth
    ELSE MaxOf({d[u] : u \in UpstreamRecords(ms, id)})

check_model_dependencies(ms, d, id) ==
    IF ms[id].upstream_models = {} \/ d[id] # NoDepth
    THEN <<FALSE, NoDepth>>
    ELSE <<AllUpstreamsHaveDepths(ms, d, id), MaxUpstreamDepth(ms, d, id)>>

\* max_depth.map(|d| d + 1)
MapPlusOne(max_depth) == IF max_depth = NoDepth THEN NoDepth ELSE max_depth + 1

\* One iteration of the while loop: the for loop over model_ids from
\* position i, updating depths in place.  st = [depth, made_changes].
RECURSIVE RelaxPass(_, _, _, _)
RelaxPass(ms, model_ids, st, i) ==
    IF i > Len(model_ids) THEN st
    ELSE LET id == model_ids[i]
             chk == check_model_dependencies(ms, st.depth, id)
         IN  IF st.depth[id] # NoDepth \/ ~chk[1]
             THEN RelaxPass(ms, model_ids, st, i + 1)
             ELSE RelaxPass(ms, model_ids,
                            [depth |-> [st.depth EXCEPT ![id] = MapPlusOne(chk[2])],
                             made_changes |-> TRUE],
                            i + 1)

\* calculate_model_depths_iteratively: passes repeat while made_changes.
\* A pass that sets made_changes and leaves every depth as it found it is
\* followed by an identical pass, and so on for ever: the loop does not
\* return (returned = FALSE).
RECURSIVE calculate_model_depths_iteratively(_, _, _)
calculate_model_depths_iteratively(ms, model_ids, d) ==
    LET st == RelaxPass(ms, model_ids, [depth |-> d, made_changes |-> FALSE], 1)
    IN  IF ~st.made_changes THEN [depth |-> d, returned |-> TRUE]
        ELSE IF st.depth = d THEN [depth |-> d, returned |-> FALSE]
        ELSE calculate_model_depths_iteratively(ms, model_ids, st.depth)

\* calculate_model_depths: reset, mark the sources, relax.
calculate_model_depths_of(ms, model_ids) ==
    LET r == calculate_model_depths_iteratively(ms, model_ids, mark_source_nodes(ms))
    IN  [models |-> [id \in DOMAIN ms |-> [ms[id] EXCEPT !.depth = r.depth[id]]],
         returned |-> r.returned]

\* The whole of build_dependency_graph for one iteration order of the keys.
BuildOutcome(model_ids) ==
    LET table_to_model == build_table_to_model_map(models, model_ids)
        relationships  == collect_model_relationships(models, table_to_model)
        linked  == update_model_dependency_relationships(models, relationships)
        sourced == calculate_external_sources(linked, table_to_model,
                                              defined_imports)
        deep    == calculate_model_depths_of(sourced, model_ids)
    IN  [models |-> deep.models,
         child_map |-> ChildMapOf(relationships),
         parent_map |-> ParentMapOf(relationships),
         missing_imports |-> MissingImportsOf(models, table_to_model,
                                              defined_imports),
         returned |-> deep.returned]

build_dependency_graph ==
    /\ returned
    /\ \E model_ids \in IterationOrders(DOMAIN models, key_order) :
         LET out == BuildOutcome(model_ids)
         IN  /\ models' = out.models
             /\ child_map' = out.child_map
             /\ parent_map' = out.parent_map
             /\ missing_imports' = out.missing_imports
             /\ returned' = out.returned
             /\ key_order' = model_ids
    /\ built' = TRUE
    /\ rebuilt' = built
    /\ UNCHANGED <<defined_imports, ops, ast, result, fs>>

calculate_model_depths ==
    /\ returned
    /\ \E model_ids \in IterationOrders(DOMAIN models, key_order) :
         LET out == calculate_model_depths_of(models, model_ids)
         IN  /\ models' = out.models
             /\ returned' = out.returned
             /\ key_order' = model_ids
    /\ UNCHANGED <<child_map, parent_map, defined_imports, missing_imports,
                   built, ops, rebuilt, ast, result, fs>>

Next ==
    \/ \E id \in Ids, schema \in Schemas, refs \in RefSets :
         add_model(id, schema, refs)
    \/ \E id \in Ids, refs \in RefSets : edit_referenced_tables(id, refs)
    \/ \E id \in Ids, schema \in Schemas : edit_schema(id, schema)
    \/ \E dir_exists \in BOOLEAN, declared \in SUBSET ImportNames :
         load_source_definitions(dir_exists, declared)
    \/ build_dependency_graph

Spec == Init /\ [][Next]_vars

\* The collection with records carried over from another collection and
\* with calculate_model_depths called on its own.
InitAll ==
    /\ models = [k \in {} |-> NewModel("model.x.a", NoSchema, {})]
    /\ child_map = EmptyMap
    /\ parent_map = EmptyMap
    /\ defined_imports = {}
    /\ missing_imports = EmptyMap
    /\ built = FALSE
    /\ returned = TRUE
    /\ ops = MaxOpsAll
    /\ key_order = NoOrder
    /\ rebuilt = FALSE
    /\ ast = <<>>
    /\ fs = NoFs
    /\ result = NoResult

NextAll ==
    \/ Next
    \/ \E id \in Ids, schema \in Schemas, refs \in RefSets, up \in ForeignIds :
         add_carried_model(id, schema, refs, up)
    \/ calculate_model_depths

SpecAll == InitAll /\ [][NextAll]_vars

\* ------------------------------------------------------------------------
\* extract_file_metadata: unique_id of a SQL file
\* ------------------------------------------------------------------------

\* Strings are sequences of characters here.  Relative paths are built
\* from these pieces, followed by the ".sql" extension.
DotSql == <<".", "s", "q", "l">>

PathAtoms == {<<"a">>, <<"/">>, <<"\\">>, <<".">>, DotSql}

\* Pieces before the extension in the longest path.
MaxAtoms == 3

\* Files parsed in a behaviour of SpecFiles.
MaxFiles == 2

RECURSIVE Flatten(_)
Flatten(atoms) ==
    IF atoms = <<>> THEN <<>> ELSE Head(atoms) \o Flatten(Tail(atoms))

\* The directory components of a path: the text before each '/'.
DirComponents(path) ==
    LET slashes == {i \in DOMAIN path : path[i] = "/"}
        prev(i) == IF \E j \in slashes : j < i
                   THEN MaxOf({j \in slashes : j < i}) ELSE 0
    IN  {SubSeq(path, prev(i) + 1, i - 1) : i \in slashes}

\* Relative paths WalkDir can yield for a file find_sql_files keeps: every
\* directory component is a name, the file name is a stem and ".sql".
SqlFiles ==
    {path \in {Flatten(atoms) \o DotSql :
                 atoms \in UNION {[1..n -> PathAtoms] : n \in 1..MaxAtoms}} :
        /\ path[Len(path) - 4] # "/"
        /\ DirComponents(path) \cap {<<>>, <<".">>, <<".", ".">>} = {}}

\* str::replace(['/', '\\'], ".")
ReplaceSeparators(str) ==
    [i \in DOMAIN str |-> IF str[i] \in {"/", "\\"} THEN "." ELSE str[i]]

\* str::replace(".sql", ""): every non-overlapping match, left to right.
RECURSIVE RemoveDotSql(_)
RemoveDotSql(str) ==
    IF Len(str) < 4 THEN str
    ELSE IF SubSeq(str, 1, 4) = DotSql
         THEN RemoveDotSql(SubSeq(str, 5, Len(str)))
         ELSE <<Head(str)>> \o RemoveDotSql(Tail(str))

\* format!("model.{}", relative_path.replace(['/', '\\'], ".").replace(".sql", ""))
unique_id(relative_path) ==
    <<"m", "o", "d", "e", "l", ".">>
        \o RemoveDotSql(ReplaceSeparators(relative_path))

\* SqlModel::from_path followed by add_model: the record is keyed by the
\* unique_id of its file.
from_path(relative_path) ==
    /\ returned
    /\ ops > 0
    /\ models' = Insert(unique_id(relative_path),
                        [relative_file_path |-> relative_path,
                         referenced_tables |-> {}, upstream_models |-> {},
                         downstream_models |-> {}, external_sources |-> {},
                         depth |-> NoDepth])
    /\ key_order' = IF unique_id(relative_path) \in DOMAIN models
                    THEN key_order ELSE NoOrder
    /\ built' = FALSE
    /\ rebuilt' = FALSE
    /\ ops' = ops - 1
    /\ UNCHANGED <<ast, result, fs>>
    /\ UNCHANGED <<child_map, parent_map, defined_imports, missing_imports,
                   returned>>

InitFiles ==
    /\ models = [k \in {} |-> NewModel("model.x.a", NoSchema, {})]
    /\ child_map = EmptyMap
    /\ parent_map = EmptyMap
    /\ defined_imports = {}
    /\ missing_imports = EmptyMap
    /\ built = FALSE
    /\ returned = TRUE
    /\ ops = MaxFiles
    /\ key_order = NoOrder
    /\ rebuilt = FALSE
    /\ ast = <<>>
    /\ fs = NoFs
    /\ result = NoResult

NextFiles == \E relative_path \in SqlFiles : from_path(relative_path)

\* The collection while the parse command loads a project's SQL files.
SpecFiles == InitFiles /\ [][NextFiles]_vars

\* ------------------------------------------------------------------------
\* sql_engine/extractors.rs: the reference extractor
\* ------------------------------------------------------------------------

\* The AST is a tree of records with a `kind`.  An Ident is a value (a
\* sequence of characters) and a quote_style; an ObjectName is a sequence
\* of Idents.

\* Ident as Display writes it.
IdentToString(ident) ==
    IF ident.quote_style THEN <<"\"">> \o ident.value \o <<"\"">>
    ELSE ident.value

\* ObjectName::to_string(): the Idents joined by '.'.
RECURSIVE ObjectNameToString(_)
ObjectNameToString(name) ==
    IF Len(name) = 1 THEN IdentToString(name[1])
    ELSE IdentToString(name[1]) \o <<".">> \o ObjectNameToString(Tail(name))

\* str::to_uppercase on the letters function names are written with here.
UpperChar(c) ==
    CASE c = "c" -> "C" [] c = "o" -> "O" [] c = "u" -> "U" [] c = "n" -> "N"
      [] c = "t" -> "T" [] c = "f" -> "F" [] c = "s" -> "S" [] c = "m" -> "M"
      [] OTHER -> c

\* A comparison that leaves the name as it is written.
to_uppercase_AsWritten(str) == str

to_uppercase(str) == [i \in DOMAIN str |-> UpperChar(str[i])]

common_sql_functions ==
    {<<"C", "O", "U", "N", "T">>, <<"S", "U", "M">>, <<"A", "V", "G">>,
     <<"M", "I", "N">>, <<"M", "A", "X">>, <<"D", "A", "T", "E">>,
     <<"T", "I", "M", "E">>, <<"T", "I", "M", "E", "S", "T", "A", "M", "P">>,
     <<"E", "X", "T", "R", "A", "C", "T">>, <<"C", "O", "N", "C", "A", "T">>,
     <<"S", "U", "B", "S", "T", "R", "I", "N", "G">>,
     <<"U", "P", "P", "E", "R">>, <<"L", "O", "W", "E", "R">>,
     <<"C", "O", "A", "L", "E", "S", "C", "E">>,
     <<"N", "U", "L", "L", "I", "F">>, <<"C", "A", "S", "T">>,
     <<"C", "O", "N", "V", "E", "R", "T">>, <<"R", "O", "U", "N", "D">>,
     <<"F", "L", "O", "O", "R">>, <<"C", "E", "I", "L", "I", "N", "G">>,
     <<"A", "B", "S">>, <<"D", "A", "T", "E", "_", "T", "R", "U", "N", "C">>,
     <<"D", "A", "T", "E", "_", "P", "A", "R", "T">>,
     <<"D", "A", "T", "E", "_", "D", "I", "F", "F">>,
     <<"D", "A", "T", "E", "_", "A", "D", "D">>,
     <<"D", "A", "T", "E", "_", "S", "U", "B">>,
     <<"C", "U", "R", "R", "E", "N", "T", "_", "D", "A", "T", "E">>,
     <<"C", "U", "R", "R", "E", "N", "T", "_", "T", "I", "M", "E">>,
     <<"C", "U", "R", "R", "E", "N", "T", "_", "T", "I", "M", "E", "S", "T", "A", "M", "P">>,
     <<"C", "A", "S", "E">>, <<"I", "F">>, <<"I", "F", "N", "U", "L", "L">>,
     <<"N", "V", "L">>, <<"I", "I", "F">>}

\* table.contains('.')
contains_dot(str) == \E i \in DOMAIN str : str[i] = "."

RECURSIVE extract_tables_from_query(_)
RECURSIVE extract_tables_from_set_expr(_)
RECURSIVE extract_tables_from_expr(_)
RECURSIVE extract_table_from_relation(_)
RECURSIVE CteTables(_)
RECURSIVE FromTables(_)
RECURSIVE JoinTables(_)
RECURSIVE ProjectionTables(_)
RECURSIVE ExprListTables(_)

\* for cte in &with.cte_tables: the alias, then the names of its query.
CteTables(cte_tables) ==
    IF cte_tables = <<>> THEN <<>>
    ELSE <<Head(cte_tables).alias.name.value>>
            \o extract_tables_from_query(Head(cte_tables).query)
            \o CteTables(Tail(cte_tables))

\* for join in &table_with_joins.joins
JoinTables(joins) ==
    IF joins = <<>> THEN <<>>
    ELSE extract_table_from_relation(Head(joins).relation)
            \o JoinTables(Tail(joins))

\* for table_with_joins in &select.from
FromTables(from) ==
    IF from = <<>> THEN <<>>
    ELSE extract_table_from_relation(Head(from).relation)
            \o JoinTables(Head(from).joins)
            \o FromTables(Tail(from))

\* for item in &select.projection: other items (wildcards) push nothing.
ProjectionTables(projection) ==
    IF projection = <<>> THEN <<>>
    ELSE (IF Head(projection).kind \in {"ExprWithAlias", "UnnamedExpr"}
          THEN extract_tables_from_expr(Head(projection).expr)
          ELSE <<>>)
            \o ProjectionTables(Tail(projection))

\* for item in list (InList, and the conditions and results of Case)
ExprListTables(list) ==
    IF list = <<>> THEN <<>>
    ELSE extract_tables_from_expr(Head(list)) \o ExprListTables(Tail(list))

\* if let Some(expr) = ...
OptionalExprTables(expr) ==
    IF expr.kind = "None" THEN <<>> ELSE extract_tables_from_expr(expr)

extract_table_from_relation(relation) ==
    CASE relation.kind = "Table" -> <<ObjectNameToString(relation.name)>>
      [] relation.kind = "Derived" -> extract_tables_from_query(relation.subquery)
      [] relation.kind = "TableFunction" -> extract_tables_from_expr(relation.expr)
      [] relation.kind = "NestedJoin" ->
            extract_table_from_relation(relation.table_with_joins.relation)
                \o JoinTables(relation.table_with_joins.joins)
      [] OTHER -> <<>>

extract_tables_from_expr(expr) ==
    CASE expr.kind \in {"Subquery", "InSubquery"} ->
            extract_tables_from_query(expr.subquery)
      [] expr.kind = "BinaryOp" ->
            extract_tables_from_expr(expr.left) \o extract_tables_from_expr(expr.right)
      [] expr.kind \in {"UnaryOp", "Cast"} -> extract_tables_from_expr(expr.expr)
      [] expr.kind = "InList" -> ExprListTables(expr.list)
      [] expr.kind = "Function" ->
            IF to_uppercase(ObjectNameToString(expr.name)) \in common_sql_functions
            THEN <<>> ELSE <<ObjectNameToString(expr.name)>>
      [] expr.kind = "Case" ->
            OptionalExprTables(expr.operand) \o ExprListTables(expr.conditions)
                \o ExprListTables(expr.results)
                \o OptionalExprTables(expr.else_result)
      [] OTHER -> <<>>

extract_tables_from_set_expr(expr) ==
    CASE expr.kind = "Select" ->
            FromTables(expr.from) \o OptionalExprTables(expr.selection)
      [] expr.kind = "Query" -> extract_tables_from_query(expr.query)
      [] expr.kind = "SetOperation" ->
            extract_tables_from_set_expr(expr.left)
                \o extract_tables_from_set_expr(expr.right)
      [] OTHER -> <<>>

extract_tables_from_query(query) ==
    CteTables(query.with)
        \o (CASE query.body.kind = "Select" ->
                    FromTables(query.body.from)
                        \o OptionalExprTables(query.body.selection)
                        \o ProjectionTables(query.body.projection)
                        \o OptionalExprTables(query.body.having)
              [] query.body.kind = "Query" ->
                    extract_tables_from_query(query.body.query)
              [] query.body.kind = "SetOperation" ->
                    extract_tables_from_set_expr(query.body.left)
                        \o extract_tables_from_set_expr(query.body.right)
              [] OTHER -> <<>>)

\* get_table_names: the names of every Statement::Query, in order.
RECURSIVE get_table_names(_)
get_table_names(statements) ==
    IF statements = <<>> THEN <<>>
    ELSE (IF Head(statements).kind = "Query"
          THEN extract_tables_from_query(Head(statements).query) ELSE <<>>)
            \o get_table_names(Tail(statements))

\* get_external_table_deps: all_tables.into_iter().filter(contains '.')
get_external_table_deps(statements) ==
    SelectSeq(get_table_names(statements), contains_dot)

\* get_external_table_deps_set
get_external_table_deps_set(statements) ==
    {get_external_table_deps(statements)[i] :
        i \in DOMAIN get_external_table_deps(statements)}

\* Bounded inputs of the extractor: statements built from these pieces.
Ident(value) == [value |-> value, quote_style |-> FALSE]

QuotedIdent(value) == [value |-> value, quote_style |-> TRUE]

\* The table t, the qualified tables s.<x>, the table written "c.d".
BareName(x) == <<Ident(<<x>>)>>

QualifiedName(x) == <<Ident(<<"s">>), Ident(<<x>>)>>

QuotedDottedName == <<QuotedIdent(<<"c", ".", "d">>)>>

NoExpr == [kind |-> "None"]

Table(name) == [kind |-> "Table", name |-> name]

Derived(subquery) == [kind |-> "Derived", subquery |-> subquery]

TableWithJoins(relation, joins) == [relation |-> relation, joins |-> joins]

Join(relation) == [relation |-> relation]

Select(from, selection, projection, having) ==
    [kind |-> "Select", from |-> from, selection |-> selection,
     projection |-> projection, having |-> having]

SetOperation(left, right) ==
    [kind |-> "SetOperation", left |-> left, right |-> right]

Query(with, body) == [with |-> with, body |-> body]

Cte(alias, query) == [alias |-> [name |-> alias], query |-> query]

Wildcard == [kind |-> "Wildcard"]

UnnamedExpr(expr) == [kind |-> "UnnamedExpr", expr |-> expr]

ExprWithAlias(expr) == [kind |-> "ExprWithAlias", expr |-> expr]

\* A call <name>(<args>); the arguments are expressions.
FunctionWithArgs(name, args) == [kind |-> "Function", name |-> name, args |-> args]

Function(name) == FunctionWithArgs(name, <<>>)

\* SELECT * FROM <name>
SimpleSelect(name) ==
    Select(<<TableWithJoins(Table(name), <<>>)>>, NoExpr, <<Wildcard>>, NoExpr)

SimpleQuery(name) == Query(<<>>, SimpleSelect(name))

\* (SELECT * FROM <name>) as an expression
Subquery(name) == [kind |-> "Subquery", subquery |-> SimpleQuery(name)]

FromOptions ==
    {<<>>,
     <<TableWithJoins(Table(BareName("t")), <<>>)>>,
     <<TableWithJoins(Table(QualifiedName("t")),
                      <<Join(Table(QualifiedName("j")))>>)>>,
     <<TableWithJoins(Table(BareName("c")), <<>>)>>,
     <<TableWithJoins(Table(QuotedDottedName), <<>>)>>,
     <<TableWithJoins(Derived(SimpleQuery(QualifiedName("t"))), <<>>)>>}

WhereOptions == {NoExpr, Subquery(QualifiedName("w"))}

ProjectionOptions ==
    {<<Wildcard>>,
     <<UnnamedExpr(Subquery(QualifiedName("p")))>>,
     <<ExprWithAlias(Function(QualifiedName("f")))>>,
     <<UnnamedExpr(Function(BareName("f"))),
       UnnamedExpr(Function(<<Ident(<<"c", "o", "u", "n", "t">>)>>))>>,
     <<UnnamedExpr(FunctionWithArgs(<<Ident(<<"S", "u", "m">>)>>,
                                    <<Subquery(QualifiedName("g"))>>)),
       ExprWithAlias(FunctionWithArgs(QualifiedName("f"),
                                      <<Subquery(QualifiedName("g"))>>))>>}

HavingOptions == {NoExpr, Subquery(QualifiedName("h"))}

Selects ==
    {Select(f, w, p, h) : f \in FromOptions, w \in WhereOptions,
                          p \in ProjectionOptions, h \in HavingOptions}

\* The selections used as branches of a set operation.
BranchSelects ==
    {sel \in Selects :
        /\ sel.from \in {<<TableWithJoins(Table(BareName("t")), <<>>)>>,
                         <<TableWithJoins(Table(QualifiedName("t")),
                                          <<Join(Table(QualifiedName("j")))>>)>>}
        /\ sel.projection \in {<<Wildcard>>,
                               <<UnnamedExpr(Subquery(QualifiedName("p")))>>}}

SetOperations ==
    {SetOperation(l, r) :
        l \in BranchSelects,
        r \in {SimpleSelect(BareName("t")),
               Select(<<TableWithJoins(Table(QualifiedName("t")), <<>>)>>,
                      NoExpr, <<Wildcard>>, Subquery(QualifiedName("h")))}}
    \cup {SetOperation(SetOperation(SimpleSelect(QualifiedName("t")),
                                    SimpleSelect(QualifiedName("j"))),
                       [kind |-> "Query", query |-> SimpleQuery(QualifiedName("b"))])}

Bodies ==
    Selects \cup SetOperations
        \cup {[kind |-> "Query", query |-> SimpleQuery(QualifiedName("b"))],
              [kind |-> "Values"]}

\* No WITH; one CTE c; one CTE written "c.d"; a CTE whose query has a WITH
\* of its own; two CTEs, the second reading the first.
Withs ==
    {<<>>,
     <<Cte(Ident(<<"c">>), SimpleQuery(QualifiedName("b")))>>,
     <<Cte(QuotedIdent(<<"c", ".", "d">>), SimpleQuery(BareName("t")))>>,
     <<Cte(Ident(<<"c">>),
           Query(<<Cte(Ident(<<"n">>), SimpleQuery(QualifiedName("b")))>>,
                 SimpleSelect(BareName("n"))))>>,
     <<Cte(Ident(<<"c">>), SimpleQuery(QualifiedName("b"))),
       Cte(Ident(<<"e">>), SimpleQuery(BareName("c")))>>}

Queries == {Query(with, body) : with \in Withs, body \in Bodies}

\* The statement lists a file parses to: one query, a query after a
\* statement that is no query, two queries.
StatementLists ==
    {<<[kind |-> "Query", query |-> q]>> : q \in Queries}
        \cup {<<[kind |-> "CreateTable"], [kind |-> "Query", query |-> q]>> :
                 q \in {SimpleQuery(QualifiedName("t"))}}
        \cup {<<[kind |-> "Query", query |-> SimpleQuery(BareName("t"))],
                [kind |-> "Query", query |-> q]>> :
                 q \in {SimpleQuery(QualifiedName("t")), SimpleQuery(BareName("t"))}}

\* The extractor entry points, called on the statements of one file.
GetTableNames ==
    /\ result = NoResult
    /\ result' = [fn |-> "get_table_names",
                  table_names |-> get_table_names(ast),
                  referenced_tables |-> {}]
    /\ UNCHANGED <<models, child_map, parent_map, defined_imports,
                   missing_imports, built, returned, ops, key_order, rebuilt,
                   ast, fs>>

GetExternalTableDeps ==
    /\ result = NoResult
    /\ result' = [fn |-> "get_external_table_deps",
                  table_names |-> get_external_table_deps(ast),
                  referenced_tables |-> {}]
    /\ UNCHANGED <<models, child_map, parent_map, defined_imports,
                   missing_imports, built, returned, ops, key_order, rebuilt,
                   ast, fs>>

\* SqlModel::extract_dependencies: self.referenced_tables = the set.
extract_dependencies ==
    /\ result = NoResult
    /\ result' = [fn |-> "extract_dependencies",
                  table_names |-> <<>>,
                  referenced_tables |-> get_external_table_deps_set(ast)]
    /\ UNCHANGED <<models, child_map, parent_map, defined_imports,
                   missing_imports, built, returned, ops, key_order, rebuilt,
                   ast, fs>>

InitExtract ==
    /\ models = [k \in {} |-> NewModel("model.x.a", NoSchema, {})]
    /\ child_map = EmptyMap
    /\ parent_map = EmptyMap
    /\ defined_imports = {}
    /\ missing_imports = EmptyMap
    /\ built = FALSE
    /\ returned = TRUE
    /\ ops = 0
    /\ key_order = NoOrder
    /\ rebuilt = FALSE
    /\ ast \in StatementLists
    /\ fs = NoFs
    /\ result = NoResult

NextExtract == GetTableNames \/ GetExternalTableDeps \/ extract_dependencies

\* The extractor on the statements of every file of the bounded family.
SpecExtract == InitExtract /\ [][NextExtract]_vars

\* ------------------------------------------------------------------------
\* validators/mod.rs: the directory-structure validator
\* ------------------------------------------------------------------------

\* A path and a file name are sequences of characters, as the validator
\* searches the path string.  fs.root is the models directory, fs.files maps
\* every directory to the names of the files directly in it; the
\* sub-directories of a directory are the directories one component below.

ImportsName == <<"i", "m", "p", "o", "r", "t", "s">>

DotYml == <<".", "y", "m", "l">>

\* A file no rule expects, and a SQL file named after no directory.
NotesMd == <<"x", ".", "m", "d">>

WrongSql == <<"w">> \o DotSql

\* str::contains
contains(str, pat) ==
    \E i \in 0..(Len(str) - Len(pat)) : SubSeq(str, i + 1, i + Len(pat)) = pat

\* str::ends_with
ends_with(str, pat) ==
    /\ Len(str) >= Len(pat)
    /\ SubSeq(str, Len(str) - Len(pat) + 1, Len(str)) = pat

\* Path::file_name: the last component.
file_name(path) ==
    LET slashes == {i \in DOMAIN path : path[i] = "/"}
    IN  SubSeq(path, (IF slashes = {} THEN 0 ELSE MaxOf(slashes)) + 1, Len(path))

\* Path::join
join(path, name) == path \o <<"/">> \o name

\* Path::is_dir, Path::is_file, Path::exists
is_dir(path) == path \in DOMAIN fs.files

is_file(path) ==
    \E dir \in DOMAIN fs.files : \E name \in fs.files[dir] : path = join(dir, name)

exists(path) == is_dir(path) \/ is_file(path)

\* The directories directly inside dir.
Subdirectories(dir) ==
    {d \in DOMAIN fs.files : d = join(dir, file_name(d))}

\* fs::read_dir yields the entries of a directory in an order of the file
\* system's choosing: every way to list the files and the sub-directories
\* of every directory.
RECURSIVE ReadDirsOf(_)
ReadDirsOf(dirs) ==
    IF dirs = {} THEN {<<>>}
    ELSE LET dir == CHOOSE d \in dirs : TRUE
         IN  {(dir :> [files |-> file_order, dirs |-> dir_order]) @@ rest :
                 file_order \in Orders(fs.files[dir]),
                 dir_order \in Orders(Subdirectories(dir)),
                 rest \in ReadDirsOf(dirs \ {dir})}

ReadDirs == ReadDirsOf(DOMAIN fs.files)

\* ValidationResult::valid, ValidationResult::invalid
valid(path) == [is_valid |-> TRUE, path |-> path, errors |-> <<>>]

invalid(path, errors) == [is_valid |-> FALSE, path |-> path, errors |-> errors]

\* An error message: its leading text and the name it reports.
Error(text, name) == [error |-> text, name |-> name]

\* add_error with the new error put before the others.
add_error_First(res, error) ==
    [is_valid |-> FALSE, path |-> res.path, errors |-> <<error>> \o res.errors]

\* ValidationResult::add_error
add_error(res, error) ==
    [is_valid |-> FALSE, path |-> res.path, errors |-> Append(res.errors, error)]

\* The loop over the entries of the directory that are files.
RECURSIVE CheckEntries(_, _, _, _)
CheckEntries(res, entries, dir_name, is_imports) ==
    IF entries = <<>> THEN res
    ELSE LET entry_name == Head(entries)
             expected_sql == dir_name \o DotSql
             expected_yml == dir_name \o DotYml
             is_valid_file ==
                 entry_name = expected_yml \/ (~is_imports /\ entry_name = expected_sql)
         IN  CheckEntries(
                 IF is_valid_file THEN res
                 ELSE IF is_imports
                 THEN add_error(res, Error("Unexpected file in imports directory",
                                           entry_name))
                 ELSE add_error(res, Error("Unexpected file in model directory",
                                           entry_name)),
                 Tail(entries), dir_name, is_imports)

\* validate_model_structure(path); entries are the files read_dir yields.
validate_model_structure(path, entries) ==
    IF ~is_dir(path)
    THEN add_error(valid(path), Error("Path is not a directory", path))
    ELSE LET dir_name == file_name(path)
             is_imports ==
                 \/ contains(path, <<"/">> \o ImportsName \o <<"/">>)
                 \/ ends_with(path, <<"/">> \o ImportsName)
             sql_file_path == join(path, dir_name \o DotSql)
             yaml_file_path == join(path, dir_name \o DotYml)
             after_sql ==
                 IF ~is_imports /\ ~exists(sql_file_path)
                 THEN add_error(valid(path), Error("Missing SQL file", dir_name))
                 ELSE valid(path)
             after_yaml ==
                 IF ~exists(yaml_file_path)
                 THEN add_error(after_sql, Error("Missing YAML file", dir_name))
                 ELSE after_sql
         IN  CheckEntries(after_yaml, entries, dir_name, is_imports)

\* is_imports_directory
is_imports_directory(path) ==
    \/ contains(path, <<"/">> \o ImportsName \o <<"/">>)
    \/ file_name(path) = ImportsName

\* collect_model_directories(dir, results): the results it pushes.
RECURSIVE collect_model_directories(_, _)
RECURSIVE CollectSubdirectories(_, _)
CollectSubdirectories(dirs, read_dir) ==
    IF dirs = <<>> THEN <<>>
    ELSE collect_model_directories(Head(dirs), read_dir)
            \o CollectSubdirectories(Tail(dirs), read_dir)

collect_model_directories(dir, read_dir) ==
    IF ~is_dir(dir) THEN <<>>
    ELSE LET dir_name == file_name(dir)
             sql_file == join(dir, dir_name \o DotSql)
             yml_file == join(dir, dir_name \o DotYml)
         IN  IF is_imports_directory(dir)
             THEN (IF exists(yml_file) THEN <<valid(dir)>> ELSE <<>>)
                    \o CollectSubdirectories(read_dir[dir].dirs, read_dir)
             ELSE (IF exists(sql_file) \/ exists(yml_file)
                   THEN <<validate_model_structure(dir, read_dir[dir].files)>>
                   ELSE <<>>)
                    \o CollectSubdirectories(read_dir[dir].dirs, read_dir)

\* validate_models_directory
validate_models_directory(models_dir, read_dir) ==
    IF ~is_dir(models_dir)
    THEN <<invalid(models_dir, <<Error("Path is not a directory", models_dir)>>)>>
    ELSE collect_model_directories(models_dir, read_dir)

\* Bounded directory trees: a models directory /m, or one reached by the
\* relative path imports; in it a model directory a, a directory imports
\* and in that a directory r, each with any of the files named here.
ModelsRoots == {<<"/", "m">>, ImportsName}

ModelDir(root) == join(root, <<"a">>)

ImportsDir(root) == join(root, ImportsName)

RawDir(root) == join(ImportsDir(root), <<"r">>)

RootFiles(root) ==
    IF root = ImportsName THEN {ImportsName \o DotYml, NotesMd} ELSE {}

ModelDirFiles == {<<"a">> \o DotSql, <<"a">> \o DotYml, NotesMd, WrongSql}

ImportsDirFiles == {ImportsName \o DotYml, ImportsName \o DotSql, NotesMd}

RawDirFiles == {<<"r">> \o DotYml, <<"r">> \o DotSql}

TreesOf(root) ==
    {[root |-> root,
      files |-> (root :> in_root) @@ (ModelDir(root) :> in_model)
                    @@ (ImportsDir(root) :> in_imports) @@ (RawDir(root) :> in_raw)] :
        in_root \in SUBSET RootFiles(root),
        in_model \in SUBSET ModelDirFiles, in_imports \in SUBSET ImportsDirFiles,
        in_raw \in SUBSET RawDirFiles}

\* A path that names no directory.
NoSuchDir == join(fs.root, <<"z">>)

\* A caller validates one directory.
ValidateModelStructure ==
    /\ result = NoResult
    /\ \E path \in DOMAIN fs.files \cup {NoSuchDir} :
        \E entries \in Orders(IF is_dir(path) THEN fs.files[path] ELSE {}) :
            result' = [fn |-> "validate_model_structure",
                       validation |-> validate_model_structure(path, entries)]
    /\ UNCHANGED <<models, child_map, parent_map, defined_imports,
                   missing_imports, built, returned, ops, key_order, rebuilt,
                   ast, fs>>

\* The validate command validates the models directory.
ValidateModelsDirectory ==
    /\ result = NoResult
    /\ \E models_dir \in {fs.root, NoSuchDir} :
        \E read_dir \in ReadDirs :
            result' = [fn |-> "validate_models_directory",
                       models_dir |-> models_dir,
                       results |-> validate_models_directory(models_dir, read_dir)]
    /\ UNCHANGED <<models, child_map, parent_map, defined_imports,
                   missing_imports, built, returned, ops, key_order, rebuilt,
                   ast, fs>>

\* ------------------------------------------------------------------------
\* SqlModel::from_content: validation of the parent directory and the
\* binding of the YAML file next to the SQL file
\* ------------------------------------------------------------------------

\* Option::None of an optional string; an optional list or table is the
\* empty sequence for None and a sequence of one element for Some.
NoValue == "<none>"

None == <<>>

Some(value) == <<value>>

\* What a .yml file holds: a file that cannot be read, text that is no YAML
\* of the expected shape, or a document with its models and sources.
Unreadable == [kind |-> "unreadable"]

Malformed == [kind |-> "malformed"]

Document(yaml_models, yaml_sources) ==
    [kind |-> "yaml", models |-> yaml_models, sources |-> yaml_sources]

\* `version: 2` and nothing else.
VersionOnly == Document(None, None)

\* A models entry with every field set, tags being an array of a string and
\* a number; and an entry with the name alone.
FullModel(name, description) ==
    [name |-> name, description |-> description,
     meta |-> Some([tags |-> <<[str |-> "daily"], [num |-> 1]>>]),
     config |-> Some([materialized |-> "table"]),
     database_name |-> "db", schema_name |-> "stg", object_name |-> "obj",
     columns |-> Some(<<[name |-> "id"], [name |-> "name"]>>)]

BareModel(name) ==
    [name |-> name, description |-> NoValue, meta |-> None, config |-> None,
     database_name |-> NoValue, schema_name |-> NoValue, object_name |-> NoValue,
     columns |-> None]

YamlContents ==
    {Unreadable, Malformed, VersionOnly,
     Document(Some(<<FullModel("b", "other")>>), None),
     Document(Some(<<BareModel("b"), FullModel("a", "first"),
                     FullModel("a", "second")>>), None)}

\* fs::read_to_string of a .yml file; a file the tree says nothing about
\* holds `version: 2`.
read_to_string(path) ==
    IF path \in DOMAIN fs.yaml THEN fs.yaml[path] ELSE VersionOnly

\* String of a sequence of characters.
RECURSIVE Text(_)
Text(chars) == IF chars = <<>> THEN "" ELSE Head(chars) \o Text(Tail(chars))

\* Path::parent and Path::file_stem
parent(path) ==
    LET slashes == {i \in DOMAIN path : path[i] = "/"}
    IN  SubSeq(path, 1, (IF slashes = {} THEN 1 ELSE MaxOf(slashes)) - 1)

file_stem(path) ==
    LET name == file_name(path)
        dots == {i \in DOMAIN name : name[i] = "."}
    IN  IF dots = {} \/ MaxOf(dots) = 1 THEN name
        ELSE SubSeq(name, 1, MaxOf(dots) - 1)

\* validate_directory_structure
validate_directory_structure(parent_dir, entries) ==
    IF exists(parent_dir)
    THEN LET validation_result == validate_model_structure(parent_dir, entries)
         IN  [is_valid |-> validation_result.is_valid,
              errors |-> validation_result.errors]
    ELSE [is_valid |-> FALSE, errors |-> <<"Parent directory does not exist">>]

\* apply_model_meta: meta, and tags from the strings of meta["tags"].
apply_model_meta(model, model_config) ==
    IF model_config.meta = None THEN model
    ELSE [model EXCEPT
            !.meta = model_config.meta[1],
            !.tags = IF "tags" \in DOMAIN model_config.meta[1]
                     THEN LET tags_array == model_config.meta[1].tags
                              strings == SelectSeq(tags_array,
                                                   LAMBDA v : "str" \in DOMAIN v)
                          IN  [i \in DOMAIN strings |-> strings[i].str]
                     ELSE @]

\* load_column_information: columns keyed by name.
load_column_information(model, model_config) ==
    IF model_config.columns = None THEN model
    ELSE [model EXCEPT
            !.columns = @ \cup {model_config.columns[1][i].name :
                                  i \in DOMAIN model_config.columns[1]}]

\* apply_model_config
apply_model_config(model, model_config) ==
    LET described == [model EXCEPT !.description = model_config.description]
        with_meta == apply_model_meta(described, model_config)
        configured ==
            [with_meta EXCEPT
                !.materialized = IF model_config.config = None THEN @
                                 ELSE model_config.config[1].materialized,
                !.database = model_config.database_name,
                !.schema = IF model_config.schema_name = NoValue THEN NoSchema
                           ELSE model_config.schema_name,
                !.object_name = model_config.object_name]
    IN  load_column_information(configured, model_config)

\* apply_yaml_config: the first models entry that has the record's name.
apply_yaml_config(model, yaml_config) ==
    IF yaml_config.models = None THEN model
    ELSE LET yaml_models == yaml_config.models[1]
             matching == {i \in DOMAIN yaml_models :
                            yaml_models[i].name = model.name}
         IN  IF matching = {} THEN model
             ELSE apply_model_config(model,
                    yaml_models[CHOOSE i \in matching :
                                   \A j \in matching : i <= j])

\* load_yaml_metadata; name_chars spells the record's name.  An error of
\* the read or of the parse leaves the record as it is.
load_yaml_metadata(model, name_chars) ==
    LET yaml_path == join(model.parent_dir, name_chars \o DotYml)
    IN  IF ~exists(yaml_path) THEN model
        ELSE IF read_to_string(yaml_path).kind # "yaml" THEN model
        ELSE apply_yaml_config(model, read_to_string(yaml_path))

\* create_model with the YAML bound whatever the validation said.
create_model_Unvalidated(path, validation) ==
    load_yaml_metadata(
        [name |-> Text(file_stem(path)), parent_dir |-> parent(path),
         description |-> NoValue, tags |-> <<>>, meta |-> <<>>,
         materialized |-> NoValue, schema |-> NoSchema, database |-> NoValue,
         object_name |-> NoValue, columns |-> {},
         is_valid_structure |-> validation.is_valid,
         structure_errors |-> validation.errors],
        file_stem(path))

\* create_model
create_model(path, validation) ==
    LET model == [name |-> Text(file_stem(path)), parent_dir |-> parent(path),
                  description |-> NoValue, tags |-> <<>>, meta |-> <<>>,
                  materialized |-> NoValue, schema |-> NoSchema,
                  database |-> NoValue, object_name |-> NoValue, columns |-> {},
                  is_valid_structure |-> validation.is_valid,
                  structure_errors |-> validation.errors]
    IN  IF model.is_valid_structure
        THEN load_yaml_metadata(model, file_stem(path))
        ELSE model

\* The SQL files of the tree.
SqlPaths ==
    UNION {{join(dir, name) : name \in {f \in fs.files[dir] : ends_with(f, DotSql)}} :
           dir \in DOMAIN fs.files}

\* SqlModel::from_content on a SQL file of the tree.
from_content ==
    /\ result = NoResult
    /\ \E path \in SqlPaths :
        \E entries \in Orders(fs.files[parent(path)]) :
            result' = [fn |-> "from_content", path |-> path,
                       model |-> create_model(path,
                                    validate_directory_structure(parent(path),
                                                                 entries))]
    /\ UNCHANGED <<models, child_map, parent_map, defined_imports,
                   missing_imports, built, returned, ops, key_order, rebuilt,
                   ast, fs>>

\* The content of a.yml, told for the trees whose model directory holds
\* both a.sql and a.yml.
Sidecars(tree) ==
    IF {<<"a">> \o DotSql, <<"a">> \o DotYml} \subseteq tree.files[ModelDir(tree.root)]
    THEN {join(ModelDir(tree.root), <<"a">> \o DotYml) :> content :
            content \in YamlContents}
    ELSE {<<>>}

FileSystems ==
    UNION {{[root |-> tree.root, files |-> tree.files, yaml |-> sidecar] :
                sidecar \in Sidecars(tree)} :
           tree \in UNION {TreesOf(root) : root \in ModelsRoots}}

InitValidate ==
    /\ models = [k \in {} |-> NewModel("model.x.a", NoSchema, {})]
    /\ child_map = EmptyMap
    /\ parent_map = EmptyMap
    /\ defined_imports = {}
    /\ missing_imports = EmptyMap
    /\ built = FALSE
    /\ returned = TRUE
    /\ ops = 0
    /\ key_order = NoOrder
    /\ rebuilt = FALSE
    /\ ast = <<>>
    /\ fs \in FileSystems
    /\ result = NoResult

NextValidate == ValidateModelStructure \/ ValidateModelsDirectory \/ from_content

\* The validator on every directory tree of the bounded family.
SpecValidate == InitValidate /\ [][NextValidate]_vars

\* ------------------------------------------------------------------------
\* load_source_definitions: the imports catalog read from the files
\* ------------------------------------------------------------------------

ModelsName == <<"m", "o", "d", "e", "l", "s">>

\* A sources entry: its database and the names of its tables.
Source(database, tables) ==
    [database |-> database, tables |-> [i \in DOMAIN tables |-> [name |-> tables[i]]]]

\* get_imports_directory_path; Path::ends_with compares whole components.
get_imports_directory_path(project_root) ==
    IF file_name(project_root) = ModelsName
    THEN join(project_root, ImportsName)
    ELSE join(join(project_root, ModelsName), ImportsName)

\* Path::starts_with, for a directory at or below another.
IsUnder(dir, top) ==
    dir = top \/ (Len(dir) > Len(top) /\ SubSeq(dir, 1, Len(top) + 1) = top \o <<"/">>)

\* Path::extension() == "yml"
HasYmlExtension(name) == Len(name) > Len(DotYml) /\ ends_with(name, DotYml)

\* find_yaml_files: the .yml files WalkDir finds at or below imports_dir.
find_yaml_files(imports_dir) ==
    UNION {{join(dir, name) : name \in {f \in fs.files[dir] : HasYmlExtension(f)}} :
           dir \in {d \in DOMAIN fs.files : IsUnder(d, imports_dir)}}

\* extract_import_sources: <database>.<table name> of every table.
extract_import_sources(source) ==
    {source.database \o "." \o source.tables[i].name : i \in DOMAIN source.tables}

\* process_yaml_sources
process_yaml_sources(yaml_config) ==
    IF yaml_config.sources = None THEN {}
    ELSE UNION {extract_import_sources(yaml_config.sources[1][i]) :
                  i \in DOMAIN yaml_config.sources[1]}

\* process_import_yaml_file: a read error is returned to the caller, a parse
\* error skips the file.
process_import_yaml_file(yaml_path, imports) ==
    CASE read_to_string(yaml_path).kind = "unreadable" ->
            [ok |-> FALSE, imports |-> imports]
      [] read_to_string(yaml_path).kind = "malformed" ->
            [ok |-> TRUE, imports |-> imports]
      [] OTHER ->
            [ok |-> TRUE,
             imports |-> imports \cup process_yaml_sources(read_to_string(yaml_path))]

\* for yaml_path in yaml_files { process_import_yaml_file(..)?; }
RECURSIVE ProcessYamlFiles(_, _)
ProcessYamlFiles(yaml_files, imports) ==
    IF yaml_files = <<>> THEN [ok |-> TRUE, imports |-> imports]
    ELSE LET processed == process_import_yaml_file(Head(yaml_files), imports)
         IN  IF processed.ok THEN ProcessYamlFiles(Tail(yaml_files), processed.imports)
             ELSE processed

\* The count of load_source_definitions calls of a behaviour.
MaxLoads == 2

\* load_source_definitions(project_root), reading the files of fs; WalkDir
\* yields the files in an order of the file system's choosing.
LoadSourceDefinitions(project_root) ==
    /\ ops > 0
    /\ ops' = ops - 1
    /\ IF ~exists(get_imports_directory_path(project_root))
       THEN /\ defined_imports' = defined_imports
            /\ result' = [fn |-> "load_source_definitions",
                          project_root |-> project_root, value |-> "Ok"]
       ELSE \E yaml_files \in
                Orders(find_yaml_files(get_imports_directory_path(project_root))) :
              LET loaded == ProcessYamlFiles(yaml_files, {})
              IN  /\ defined_imports' = loaded.imports
                  /\ result' = [fn |-> "load_source_definitions",
                                project_root |-> project_root,
                                value |-> IF loaded.ok THEN "Ok" ELSE "Err"]
    /\ UNCHANGED <<models, child_map, parent_map, missing_imports, built,
                   returned, key_order, rebuilt, ast, fs>>

\* Bounded projects: /p with models/imports holding imports.yml, x.md and
\* r/r.yml; /q whose models/imports may be missing; /xmodels, whose name
\* ends in models and which holds an imports directory but no models.
ProjectP == <<"/", "p">>

ProjectQ == <<"/", "q">>

ProjectX == <<"/", "x">> \o ModelsName

ProjectRoots == {ProjectP, join(ProjectP, ModelsName), ProjectQ, ProjectX}

CatalogContents ==
    {Unreadable, Malformed, VersionOnly,
     Document(None, Some(<<Source("raw", <<"x">>)>>)),
     Document(None, Some(<<Source("raw", <<"x">>), Source("public", <<"a", "b">>)>>))}

RawCatalogContents ==
    {Unreadable, Malformed, Document(None, Some(<<Source("stg", <<"a">>)>>))}

\* A directory with one optional .yml file: the files and the contents.
WithCatalog(dir, name, contents) ==
    {[files |-> dir :> {}, yaml |-> <<>>]}
        \cup {[files |-> dir :> {name}, yaml |-> join(dir, name) :> content] :
                content \in contents}

ProjectTrees ==
    LET p_imports == join(join(ProjectP, ModelsName), ImportsName)
        q_models == join(ProjectQ, ModelsName)
        fixed == (ProjectP :> {}) @@ (join(ProjectP, ModelsName) :> {})
                    @@ (ProjectQ :> {}) @@ (ProjectX :> {})
                    @@ (join(ProjectX, ImportsName) :> {ImportsName \o DotYml})
        x_yaml == join(join(ProjectX, ImportsName), ImportsName \o DotYml)
                    :> Document(None, Some(<<Source("raw", <<"x">>)>>))
    IN  {[root |-> ProjectP,
          files |-> [d \in DOMAIN top.files |-> top.files[d] \cup notes]
                        @@ raw.files @@ other.files @@ fixed,
          yaml |-> top.yaml @@ raw.yaml @@ other.yaml @@ x_yaml] :
            top \in WithCatalog(p_imports, ImportsName \o DotYml, CatalogContents),
            notes \in {{}, {NotesMd}},
            raw \in WithCatalog(join(p_imports, <<"r">>), <<"r">> \o DotYml,
                                RawCatalogContents),
            other \in {[files |-> q_models :> {}, yaml |-> <<>>]}
                        \cup WithCatalog(join(q_models, ImportsName),
                                         <<"q">> \o DotYml,
                                         {Malformed,
                                          Document(None, Some(<<Source("public", <<"a">>)>>))})}

InitImports ==
    /\ models = [k \in {} |-> NewModel("model.x.a", NoSchema, {})]
    /\ child_map = EmptyMap
    /\ parent_map = EmptyMap
    /\ defined_imports = {}
    /\ missing_imports = EmptyMap
    /\ built = FALSE
    /\ returned = TRUE
    /\ ops = MaxLoads
    /\ key_order = NoOrder
    /\ rebuilt = FALSE
    /\ ast = <<>>
    /\ fs \in ProjectTrees
    /\ result = NoResult

NextImports == \E project_root \in ProjectRoots : LoadSourceDefinitions(project_root)

\* A caller loading the imports catalog of one project root after another.
SpecImports == InitImports /\ [][NextImports]_vars

\* ------------------------------------------------------------------------
\* Properties
\* ------------------------------------------------------------------------

\* The state a caller sees right after build_dependency_graph returned.
AfterBuild == built /\ returned

\* The model graph: the edges the collection holds, parent -> child.
ParentsOf(id) == Get(parent_map, id)

RECURSIVE Closure(_)
Closure(S) ==
    LET N == S \cup UNION {ParentsOf(x) : x \in S}
    IN  IF N = S THEN S ELSE Closure(N)

\* Records with a path of at least one edge to id.
Ancestors(id) == Closure(ParentsOf(id))

OnCycle(id) == id \in Ancestors(id)

InOrBelowCycle(id) == OnCycle(id) \/ \E a \in Ancestors(id) : OnCycle(a)

Acyclic == \A id \in DOMAIN models : ~OnCycle(id)

\* Number of edges on the longest upstream path from id to a source.
RECURSIVE LongestPath(_)
LongestPath(id) ==
    IF ParentsOf(id) = {} THEN 0
    ELSE 1 + MaxOf({LongestPath(p) : p \in ParentsOf(id)})

\* Records whose '<schema or public>.<name>' is r.
Owners(r) == {p \in DOMAIN models : TableName(models[p]) = r}

\* C1: after every completed build the four edge views agree: C is in
\* child_map[P] iff P is in parent_map[C] iff C is in P.downstream_models
\* iff P is in C.upstream_models.
C1_EdgeViewsAgree ==
    AfterBuild =>
        \A P \in DOMAIN models, C \in DOMAIN models :
            /\ (C \in Get(child_map, P)) <=> (P \in Get(parent_map, C))
            /\ (P \in Get(parent_map, C)) <=> (C \in models[P].downstream_models)
            /\ (C \in models[P].downstream_models) <=> (P \in models[C].upstream_models)

\* C2: build_dependency_graph and calculate_model_depths return in every
\* reachable collection state, also with cycles, self-references and
\* upstream ids that are no key of the collection.
C2_BuildTerminates == returned

\* C3: after a build a record's depth is unassigned iff the record lies on
\* a cycle of the model graph or has an upstream ancestor on one.
C3_UnassignedIffCyclic ==
    AfterBuild =>
        \A id \in DOMAIN models :
            (models[id].depth = NoDepth) <=> InOrBelowCycle(id)

\* C4: for an acyclic model graph, after a build every depth is the length
\* of the longest upstream path to a source.
C4_DepthIsLongestPath ==
    (AfterBuild /\ Acyclic) =>
        \A id \in DOMAIN models : models[id].depth = LongestPath(id)

\* C5: after a build every record with no upstream has depth 0, and every
\* record with depth d > 0 has all its upstream records assigned, the
\* largest of their depths being d - 1.
C5_DepthLocal ==
    AfterBuild =>
        \A id \in DOMAIN models :
            /\ models[id].upstream_models = {} => models[id].depth = 0
            /\ models[id].depth > 0 =>
                 /\ UpstreamRecords(models, id) # {}
                 /\ \A u \in UpstreamRecords(models, id) :
                        models[u].depth # NoDepth
                 /\ MaxOf({models[u].depth : u \in UpstreamRecords(models, id)})
                        = models[id].depth - 1

\* A record of depth 2 above two upstream records of different depths.
C5_Witness ==
    /\ AfterBuild
    /\ \E id \in DOMAIN models :
         /\ models[id].depth = 2
         /\ \E u \in models[id].upstream_models, v \in models[id].upstream_models :
                models[u].depth = 0 /\ models[v].depth = 1

\* C6: after a build every referenced name r of a record M is internal
\* (some record owns r: an edge from an owner to M exists in all four views
\* and r is in neither M.external_sources nor missing_imports[M], also when
\* r is an import), external-declared (no owner, r an import: r is in
\* M.external_sources and not in missing_imports[M]) or external-undeclared
\* (no owner, no import: r is in both).
C6_ReferenceStates ==
    AfterBuild =>
        \A M \in DOMAIN models : \A r \in models[M].referenced_tables :
            /\ Owners(r) # {} =>
                 /\ \E P \in Owners(r) :
                        /\ P \in Get(parent_map, M)
                        /\ M \in Get(child_map, P)
                        /\ P \in models[M].upstream_models
                        /\ M \in models[P].downstream_models
                 /\ r \notin models[M].external_sources
                 /\ r \notin Get(missing_imports, M)
            /\ (Owners(r) = {} /\ r \in defined_imports) =>
                 /\ r \in models[M].external_sources
                 /\ r \notin Get(missing_imports, M)
            /\ (Owners(r) = {} /\ r \notin defined_imports) =>
                 /\ r \in models[M].external_sources
                 /\ r \in Get(missing_imports, M)

\* All three states at once, the internal name being an import as well.
C6_Witness ==
    /\ AfterBuild
    /\ \E M \in DOMAIN models : \E r \in models[M].referenced_tables :
         Owners(r) # {} /\ r \in defined_imports
    /\ \E M \in DOMAIN models : \E r \in models[M].referenced_tables :
         Owners(r) = {} /\ r \in defined_imports
    /\ \E M \in DOMAIN models : \E r \in models[M].referenced_tables :
         Owners(r) = {} /\ r \notin defined_imports

\* C7: after a build, r is in missing_imports[M] iff r is in
\* M.external_sources and not in the imports set of that build.
C7_MissingIffUndeclared ==
    AfterBuild =>
        \A M \in DOMAIN models : \A r \in RefNames \cup ImportNames :
            (r \in Get(missing_imports, M)) <=>
                (r \in models[M].external_sources /\ r \notin defined_imports)

\* A record with a declared and an undeclared external source.
C7_Witness ==
    /\ AfterBuild
    /\ \E M \in DOMAIN models :
         /\ Get(missing_imports, M) # {}
         /\ models[M].external_sources \cap defined_imports # {}

\* has_missing_sources()
has_missing_sources == DOMAIN missing_imports # {}

C9_SetsFollowReferences ==
    AfterBuild =>
        \A M \in DOMAIN models :
            /\ \A r \in models[M].external_sources :
                 r \in models[M].referenced_tables /\ Owners(r) = {}
            /\ \A u \in models[M].upstream_models :
                 \E r \in models[M].referenced_tables : u \in Owners(r)
            /\ \A r \in models[M].referenced_tables :
                 ~(r \in models[M].external_sources
                   /\ \E u \in models[M].upstream_models : u \in Owners(r))

\* C10: a build gives the same edges, neighbour sets, external sources,
\* depths and missing imports for every iteration order of the records.
C10_BuildDeterministic ==
    returned =>
        \A o1 \in Orders(DOMAIN models), o2 \in Orders(DOMAIN models) :
            BuildOutcome(o1) = BuildOutcome(o2)

\* C11: a build_dependency_graph call on a collection whose records and
\* imports set did not change since the build before it leaves child_map,
\* parent_map, every record (upstream_models, downstream_models,
\* external_sources, depth) and missing_imports as that build left them,
\* and returns as that build did.
C11_RebuildIdempotent ==
    [][(built /\ returned /\ rebuilt') =>
          /\ models' = models
          /\ child_map' = child_map
          /\ parent_map' = parent_map
          /\ missing_imports' = missing_imports
          /\ returned']_vars

\* A second build over two records of one table name, one of which reads
\* that name, with an edge left over from before an edit.
C11_Witness ==
    /\ rebuilt
    /\ returned
    /\ \E a \in DOMAIN models, b \in DOMAIN models :
         /\ a # b
         /\ TableName(models[a]) = TableName(models[b])
         /\ TableName(models[a]) \in models[b].referenced_tables
    /\ \E a \in DOMAIN models :
         models[a].upstream_models # Get(parent_map, a)

\* C12: unique_id is unique within a collection: SQL files with different
\* relative paths get different unique_ids, so no add_model replaces the
\* record of one file by the record of another file.
C12_UniqueIdUnique ==
    [][\A id \in DOMAIN models :
          models'[id].relative_file_path = models[id].relative_file_path]_vars

\* detect_cycles(): Vec::new()
detect_cycles == <<>>

\* A list of ids that follows edges of the model graph back to its start.
IsCycle(c) ==
    /\ Len(c) > 0
    /\ \A i \in 1..Len(c) : c[i] \in ParentsOf(c[(i % Len(c)) + 1])

\* C13: after a build whose model graph has a directed cycle (a self-edge
\* included) detect_cycles returns a non-empty list, every element of which
\* is a list of unique_ids forming a cycle of the graph; it returns the
\* empty list only when the graph is acyclic.
C13_CyclesSurfaced ==
    AfterBuild =>
        /\ (detect_cycles = <<>>) <=> Acyclic
        /\ \A i \in 1..Len(detect_cycles) : IsCycle(detect_cycles[i])

\* The strings of the model in the order of String::cmp.
Ascending ==
    <<"a", "b", "core", "daily", "id", "model.x.a", "model.y.b", "model.z.a",
      "name", "public.a", "raw.x", "stg.a", "x">>

Rank(str) == CHOOSE i \in DOMAIN Ascending : Ascending[i] = str

\* iter().collect() of a hash set or of the keys of a hash map: the
\* elements in an order of the table's own.
Collect(S) == CHOOSE o \in Orders(S) : TRUE

\* slice::sort on strings (sort_by on a string key).
RECURSIVE InsertSorted(_, _)
InsertSorted(x, sorted) ==
    IF sorted = <<>> \/ Rank(x) <= Rank(Head(sorted)) THEN <<x>> \o sorted
    ELSE <<Head(sorted)>> \o InsertSorted(x, Tail(sorted))

RECURSIVE SortStrings(_)
SortStrings(seq) ==
    IF seq = <<>> THEN <<>>
    ELSE InsertSorted(Head(seq), SortStrings(Tail(seq)))

\* models.sort_by(|a, b| a.unique_id.cmp(&b.unique_id))
SortByUniqueId(S) == SortStrings(Collect(S))

\* get_execution_order(): the records (here their unique_ids) sorted by
\* unique_id.
get_execution_order == SortByUniqueId(DOMAIN models)

\* C14: get_execution_order returns every record of the collection exactly
\* once and, when the model graph is acyclic, every record after all of
\* its upstream records.
C14_ExecutionOrderTopological ==
    AfterBuild =>
        LET order == get_execution_order
        IN  /\ Len(order) = Cardinality(DOMAIN models)
            /\ {order[i] : i \in DOMAIN order} = DOMAIN models
            /\ Acyclic =>
                 \A i \in DOMAIN order, j \in DOMAIN order :
                    order[j] \in ParentsOf(order[i]) => j < i

IsAscending(seq) ==
    \A i \in DOMAIN seq, j \in DOMAIN seq : i < j => Rank(seq[i]) <= Rank(seq[j])

\* model_to_yaml_output: the multi-element fields of the view of a record.
model_to_yaml_output(m) ==
    [name |-> m.name, schema |-> m.schema,
     tags |-> SortStrings(m.tags),
     columns |-> SortStrings(Collect(m.columns)),
     depends_on |-> SortStrings(Collect(m.upstream_models)),
     referenced_by |-> SortStrings(Collect(m.downstream_models)),
     external_sources |-> SortStrings(Collect(m.external_sources)),
     depth |-> m.depth]

\* to_yaml(): the views go from the sorted list into a HashMap, from there
\* (ids of the fixed list first, none of which is in Ids) into a second
\* HashMap, YamlOutput.models, which the serializer walks in the order of
\* that table, hash_order.
to_yaml(hash_order) ==
    [version |-> 1,
     models |-> [i \in DOMAIN hash_order |->
                    [unique_id |-> hash_order[i],
                     view |-> model_to_yaml_output(models[hash_order[i]])]]]

\* C15: to_yaml is a deterministic function of the collection: every run
\* over the same collection emits the same document, the models mapping in
\* unique_id ascending order, for every set of unique_ids.
C15_YamlOrderStable ==
    \A o1 \in Orders(DOMAIN models), o2 \in Orders(DOMAIN models) :
        /\ to_yaml(o1) = to_yaml(o2)
        /\ IsAscending([i \in DOMAIN o1 |-> to_yaml(o1).models[i].unique_id])

\* ------------------------------------------------------------------------
\* commands/parse.rs: the graph the parse command prints
\* ------------------------------------------------------------------------

\* table.split('.') and the choice of part 1 of a name with a '.'.
TablePart(table) ==
    CASE table = "raw.x" -> "x"
      [] table = "b" -> "b"
      [] table = "s.c" -> "c"
      [] OTHER -> "a"

\* parse_sql_file on the files of the records, in the order find_sql_files
\* lists them: name is the file stem, referenced_tables the names in the
\* order the statements mention them.
ParsedModels(file_order) ==
    [i \in DOMAIN file_order |->
        [name |-> models[file_order[i]].name,
         referenced_tables |-> Collect(models[file_order[i]].referenced_tables)]]

\* The dependencies with the model's own name let in.
DependenciesOf_WithSelf(model, model_map, include_external) ==
    LET is_internal_model(table) == TablePart(table) \in model_map
        tables == {model.referenced_tables[i] : i \in DOMAIN model.referenced_tables}
    IN  {TablePart(table) : table \in {t \in tables : is_internal_model(t)}}
        \cup {table \in tables : include_external /\ ~is_internal_model(table)}

\* The HashSet `dependencies` of one model (no CTE among the names).
DependenciesOf(model, model_map, include_external) ==
    LET is_internal_model(table) ==
            TablePart(table) \in model_map /\ TablePart(table) # model.name
        tables == {model.referenced_tables[i] : i \in DOMAIN model.referenced_tables}
    IN  {TablePart(table) : table \in {t \in tables : is_internal_model(t)}}
        \cup {table \in tables : include_external /\ ~is_internal_model(table)}

\* build_dependency_graph of parse.rs: the graphs it can return.  The last
\* model of a name owns the key; dependencies.into_iter().collect() lists
\* the hash set in an order of the set's own.
RECURSIVE GraphsOver(_, _, _)
GraphsOver(names, parsed, include_external) ==
    LET model_map == {parsed[i].name : i \in DOMAIN parsed}
        last(name) == parsed[MaxOf({i \in DOMAIN parsed : parsed[i].name = name})]
    IN  IF names = {} THEN {<<>>}
        ELSE LET name == CHOOSE n \in names : TRUE
             IN  {(name :> dependencies) @@ rest :
                    dependencies \in Orders(DependenciesOf(last(name), model_map,
                                                           include_external)),
                    rest \in GraphsOver(names \ {name}, parsed, include_external)}

parse_build_dependency_graph(parsed, include_external) ==
    GraphsOver({parsed[i].name : i \in DOMAIN parsed}, parsed, include_external)

\* generate_json_graph: the entries in BTreeMap key order, each with its
\* dependency list as the graph holds it.
generate_json_graph(graph) ==
    LET keys == SortStrings(Collect(DOMAIN graph))
    IN  [i \in DOMAIN keys |-> [model |-> keys[i], dependencies |-> graph[keys[i]]]]

\* C16: every multi-element field of the machine-readable outputs is
\* ascending: tags, columns, depends_on, referenced_by and external_sources
\* of each YAML model view, and the model keys and every dependency list of
\* the JSON graph the parse command prints.
C16_OutputFieldsSorted ==
    /\ \A id \in DOMAIN models :
         LET view == model_to_yaml_output(models[id])
         IN  /\ IsAscending(view.tags)
             /\ IsAscending(view.columns)
             /\ IsAscending(view.depends_on)
             /\ IsAscending(view.referenced_by)
             /\ IsAscending(view.external_sources)
    /\ \A file_order \in Orders(DOMAIN models) :
         \A graph \in parse_build_dependency_graph(ParsedModels(file_order), TRUE) :
            LET json == generate_json_graph(graph)
            IN  /\ IsAscending([i \in DOMAIN json |-> json[i].model])
                /\ \A i \in DOMAIN json : IsAscending(json[i].dependencies)

\* C17: a build records the self-edge M -> M (in child_map and parent_map,
\* and newly in M.upstream_models and M.downstream_models) only when a name
\* of M.referenced_tables resolves to M through the table map of that
\* build; a name that resolves to another record or to none does not.
C17_SelfEdgeOnlyWhenResolved ==
    [][built' =>
          \A M \in DOMAIN models :
              LET table_to_model == build_table_to_model_map(models, key_order')
                  resolves ==
                      \E r \in models[M].referenced_tables :
                          r \in DOMAIN table_to_model /\ table_to_model[r] = M
              IN  /\ M \in Get(parent_map', M) => resolves
                  /\ M \in Get(child_map', M) => resolves
                  /\ (M \in models'[M].upstream_models
                        /\ M \notin models[M].upstream_models) => resolves
                  /\ (M \in models'[M].downstream_models
                        /\ M \notin models[M].downstream_models) => resolves]_vars

\* After one build: a record with a self-edge beside a record without one
\* that reads a table of its own name owned by another record, and a name
\* no record owns.
C17_Witness ==
    /\ AfterBuild
    /\ \E M \in DOMAIN models :
         M \in Get(parent_map, M) /\ M \in models[M].upstream_models
    /\ \E N \in DOMAIN models :
         /\ N \notin Get(parent_map, N)
         /\ N \notin models[N].upstream_models
         /\ \E r \in models[N].referenced_tables :
                /\ Owners(r) # {}
                /\ N \notin Owners(r)
                /\ TablePart(r) = models[N].name
         /\ \E r \in models[N].referenced_tables : Owners(r) = {}

\* The elements of a list.
Range(seq) == {seq[i] : i \in DOMAIN seq}

\* Every table a statement reads: the ObjectName of each named-table
\* relation anywhere in the tree, whichever clause holds it.
RECURSIVE TablesReadByQuery(_)
RECURSIVE TablesReadBySetExpr(_)
RECURSIVE TablesReadByExpr(_)
RECURSIVE TablesReadByRelation(_)

TablesReadByRelation(relation) ==
    CASE relation.kind = "Table" -> {relation.name}
      [] relation.kind = "Derived" -> TablesReadByQuery(relation.subquery)
      [] OTHER -> {}

TablesReadByExpr(expr) ==
    CASE expr.kind \in {"Subquery", "InSubquery"} -> TablesReadByQuery(expr.subquery)
      [] expr.kind = "Function" ->
            UNION {TablesReadByExpr(arg) : arg \in Range(expr.args)}
      [] OTHER -> {}

TablesReadBySetExpr(expr) ==
    CASE expr.kind = "Select" ->
            UNION {TablesReadByRelation(twj.relation)
                     \cup UNION {TablesReadByRelation(j.relation) : j \in Range(twj.joins)} :
                   twj \in Range(expr.from)}
              \cup TablesReadByExpr(expr.selection)
              \cup UNION {TablesReadByExpr(item.expr) :
                            item \in {i \in Range(expr.projection) : i.kind # "Wildcard"}}
              \cup TablesReadByExpr(expr.having)
      [] expr.kind = "Query" -> TablesReadByQuery(expr.query)
      [] expr.kind = "SetOperation" ->
            TablesReadBySetExpr(expr.left) \cup TablesReadBySetExpr(expr.right)
      [] OTHER -> {}

TablesReadByQuery(query) ==
    UNION {TablesReadByQuery(cte.query) : cte \in Range(query.with)}
        \cup TablesReadBySetExpr(query.body)

\* The queries among the statements.
QueriesOf(statements) ==
    {stmt.query : stmt \in {x \in Range(statements) : x.kind = "Query"}}

\* Every table the statements read has a one-part (unqualified) name; a
\* reference to a CTE is one of those.
ReadsOnlyUnqualified(statements) ==
    \A q \in QueriesOf(statements) : \A name \in TablesReadByQuery(q) : Len(name) = 1

\* C18: get_external_table_deps(S) is exactly the sub-list of
\* get_table_names(S) whose elements contain a '.'; extract_dependencies
\* stores that list as a set in referenced_tables; statements that read
\* only unqualified tables or CTEs yield an empty referenced_tables.
C18_ExternalIsDottedNames ==
    /\ result.fn = "get_external_table_deps" =>
         result.table_names = SelectSeq(get_table_names(ast), contains_dot)
    /\ result.fn = "extract_dependencies" =>
         /\ result.referenced_tables =
                {n \in Range(get_table_names(ast)) : contains_dot(n)}
         /\ ReadsOnlyUnqualified(ast) => result.referenced_tables = {}

\* The CTE aliases of a query's WITH clause and of the WITH clauses nested
\* in its CTEs.
RECURSIVE WithAliases(_)
WithAliases(query) ==
    {cte.alias.name.value : cte \in Range(query.with)}
        \cup UNION {WithAliases(cte.query) : cte \in Range(query.with)}

\* In the names of a query every CTE alias stands right before the names of
\* that CTE's query, the CTEs in declaration order, the names of the query
\* body after all of them; the same inside every CTE's query.
RECURSIVE CteAliasesFirst(_)
CteAliasesFirst(query) ==
    LET names == extract_tables_from_query(query)
        body(k) == extract_tables_from_query(query.with[k].query)
        RECURSIVE start(_)
        start(k) == IF k = 1 THEN 1 ELSE start(k - 1) + 1 + Len(body(k - 1))
    IN  \A k \in DOMAIN query.with :
            /\ start(k) + Len(body(k)) <= Len(names)
            /\ names[start(k)] = query.with[k].alias.name.value
            /\ SubSeq(names, start(k) + 1, start(k) + Len(body(k))) = body(k)
            /\ CteAliasesFirst(query.with[k].query)

\* C19: the alias of every CTE of a walked query (nested WITH clauses
\* included) is in get_table_names, recorded before the names of that
\* CTE's body and before the names of the query body, and no CTE alias is
\* in get_external_table_deps.
C19_CteAliasesRecorded ==
    /\ result.fn = "get_table_names" =>
         \A q \in QueriesOf(ast) :
            /\ WithAliases(q) \subseteq Range(result.table_names)
            /\ CteAliasesFirst(q)
    /\ result.fn = "get_external_table_deps" =>
         \A q \in QueriesOf(ast) :
            WithAliases(q) \cap Range(result.table_names) = {}

\* The sides of a set operation, through nested set operations.
RECURSIVE Branches(_)
Branches(expr) ==
    IF expr.kind = "SetOperation"
    THEN Branches(expr.left) \cup Branches(expr.right)
    ELSE {expr}

\* C20: of a set operation the extractor walks both sides, and a side that
\* is a selection by the rules of a top-level selection (FROM and JOIN
\* relations, WHERE, every projected expression, HAVING): every name a
\* top-level walk of the side finds is in get_table_names.
C20_SetOperationBranches ==
    result.fn = "get_table_names" =>
        \A q \in QueriesOf(ast) :
            q.body.kind = "SetOperation" =>
                \A side \in Branches(q.body) :
                    Range(extract_tables_from_query(Query(<<>>, side)))
                        \subseteq Range(result.table_names)

\* The letters of the built-in names, lower case and upper case.
CasePairs ==
    {<<"c", "C">>, <<"o", "O">>, <<"u", "U">>, <<"n", "N">>, <<"t", "T">>,
     <<"s", "S">>, <<"m", "M">>, <<"f", "F">>}

\* Two names that differ at most in the case of their letters.
EqualsIgnoreCase(a, b) ==
    /\ Len(a) = Len(b)
    /\ \A i \in DOMAIN a :
          a[i] = b[i] \/ <<a[i], b[i]>> \in CasePairs \/ <<b[i], a[i]>> \in CasePairs

\* The function calls projected by the top-level selections of the
\* statements: expressions the extractor reaches.
ProjectedCalls(statements) ==
    {item.expr : item \in UNION {{i \in Range(q.body.projection) :
                                    i.kind # "Wildcard" /\ i.expr.kind = "Function"} :
                                q \in {x \in QueriesOf(statements) :
                                         x.body.kind = "Select"}}}

\* The names of the tables read inside the arguments of a call.
ArgumentNames(call) ==
    {ObjectNameToString(name) :
        name \in UNION {TablesReadByExpr(arg) : arg \in Range(call.args)}}

NamedImports(path) ==
    \/ contains(path, <<"/">> \o ImportsName \o <<"/">>)
    \/ file_name(path) = ImportsName

\* The required file <dir name><extension> is not in the directory.
Lacks(path, extension) == ~exists(join(path, file_name(path) \o extension))

\* The files of a directory other than the ones listed.
OtherFiles(path, expected) == fs.files[path] \ expected

\* The errors from position k on, as a set.
ErrorsFrom(errors, k) == {errors[i] : i \in {j \in DOMAIN errors : j >= k}}

C23_ImportsDirectory ==
    (result.fn = "validate_model_structure" /\ is_dir(result.validation.path)) =>
        LET path == result.validation.path
            N == file_name(path)
            errors == result.validation.errors
            no_yml == Lacks(path, DotYml)
        IN  IF NamedImports(path)
            THEN /\ result.validation.is_valid <=> fs.files[path] = {N \o DotYml}
                 /\ Range(errors) =
                      {Error("Missing YAML file", N) : x \in {y \in {1} : no_yml}}
                        \cup {Error("Unexpected file in imports directory", f) :
                                f \in OtherFiles(path, {N \o DotYml})}
            ELSE /\ Lacks(path, DotSql) => errors[1] = Error("Missing SQL file", N)
                 /\ \A i \in DOMAIN errors :
                      errors[i].error # "Unexpected file in imports directory"

\* C30: every result of validate_models_directory is the result
\* validate_model_structure gives for that directory, the two decide by one
\* rule that a directory is an imports directory, and an imports directory
\* under the models directory that lacks <name>.yml or holds another file
\* is reported as invalid.
C30_DirectoryVerdictsAgree ==
    (result.fn = "validate_models_directory" /\ is_dir(result.models_dir)) =>
        /\ \A k \in DOMAIN result.results :
             \E entries \in Orders(fs.files[result.results[k].path]) :
                result.results[k] =
                    validate_model_structure(result.results[k].path, entries)
        /\ \A dir \in DOMAIN fs.files :
             (NamedImports(dir) /\ fs.files[dir] # {file_name(dir) \o DotYml}) =>
                \E k \in DOMAIN result.results :
                    /\ result.results[k].path = dir
                    /\ ~result.results[k].is_valid

\* One of the metadata fields of the record holds a value of the YAML.
HasMetadata(m) ==
    \/ m.description # NoValue \/ m.materialized # NoValue \/ m.database # NoValue
    \/ m.schema # NoSchema \/ m.object_name # NoValue
    \/ m.tags # <<>> \/ m.meta # <<>> \/ m.columns # {}

\* The YAML file next to the SQL file is missing, unreadable or malformed.
NoUsableYaml(path) ==
    LET yaml_path == join(parent(path), file_stem(path) \o DotYml)
    IN  ~exists(yaml_path) \/ read_to_string(yaml_path).kind # "yaml"

\* The directory of the SQL file passes validate_model_structure, however
\* its files are listed.
ParentIsValid(path) ==
    \E entries \in Orders(fs.files[parent(path)]) :
        validate_model_structure(parent(path), entries).is_valid

\* C24: a constructed record holds YAML metadata only if its parent
\* directory passed the structure validation; when the directory is invalid
\* or the paired YAML is missing, unreadable or malformed, the record is
\* still constructed, every metadata field keeps its empty default, and the
\* record's table name is public.<name>.
C24_MetadataOnlyWhenValid ==
    result.fn = "from_content" =>
        /\ result.model.is_valid_structure = ParentIsValid(result.path)
        /\ HasMetadata(result.model) => ParentIsValid(result.path)
        /\ (~ParentIsValid(result.path) \/ NoUsableYaml(result.path)) =>
              /\ ~HasMetadata(result.model)
              /\ TableName(result.model) = "public." \o Text(file_stem(result.path))

\* A record was constructed from a.sql in a valid directory whose a.yml is
\* malformed: it has no metadata; and the tree could have held a document
\* that binds.
C24_Witness ==
    /\ result.fn = "from_content"
    /\ ParentIsValid(result.path)
    /\ read_to_string(join(parent(result.path), <<"a">> \o DotYml)) = Malformed
    /\ ~HasMetadata(result.model)
    /\ TableName(result.model) = "public.a"

\* The names the readable, well-formed .yml files at or below a directory
\* declare: <database>.<table name> for every table of every sources entry.
DeclaredUnder(dir) ==
    UNION {process_yaml_sources(read_to_string(f)) :
             f \in {y \in find_yaml_files(dir) : read_to_string(y).kind = "yaml"}}

\* The imports directory of a root: root/imports when the last component of
\* root is models, root/models/imports otherwise.
ImportsDirectoryOf(project_root) ==
    IF file_name(project_root) = ModelsName
    THEN join(project_root, ImportsName)
    ELSE join(join(project_root, ModelsName), ImportsName)

\* C25: after load_source_definitions(root) the imports set holds
\* <database>.<table name> for every table of every sources entry of every
\* .yml file under the imports directory of root; a file that fails to
\* parse is skipped, the entries of the other files are loaded and the call
\* returns Ok; with no imports directory the call returns Ok.
C25_CatalogLoaded ==
    result.fn = "load_source_definitions" =>
        LET dir == ImportsDirectoryOf(result.project_root)
        IN  IF exists(dir)
            THEN /\ DeclaredUnder(dir) \subseteq defined_imports
                 /\ (\A f \in find_yaml_files(dir) :
                        read_to_string(f).kind # "unreadable") => result.value = "Ok"
            ELSE result.value = "Ok"

\* C26: after load_source_definitions(root) returned Ok the imports set
\* holds exactly the names declared under the imports directory of root,
\* so it is empty when root has no imports directory.
C26_ImportsExactlyDeclared ==
    (result.fn = "load_source_definitions" /\ result.value = "Ok") =>
        LET dir == ImportsDirectoryOf(result.project_root)
        IN  defined_imports = IF exists(dir) THEN DeclaredUnder(dir) ELSE {}

\* get_missing_sources_report: one line per entry of missing_imports whose
\* id is a record, in the iteration order of the map; a line is told by the
\* record's name and the missing names it lists.
get_missing_sources_report(ms, missing, order) ==
    LET ids == SelectSeq(order, LAMBDA id : id \in DOMAIN ms)
    IN  [i \in DOMAIN ids |-> [name |-> ms[ids[i]].name, missing |-> missing[ids[i]]]]

\* C27: a load_source_definitions call that changes the imports set leaves
\* the records, child_map, parent_map and missing_imports as they were, so
\* has_missing_sources() and get_missing_sources_report() answer as before
\* the call.
C27_LoadChangesImportsOnly ==
    [][(defined_imports' # defined_imports) =>
          /\ models' = models
          /\ child_map' = child_map
          /\ parent_map' = parent_map
          /\ missing_imports' = missing_imports
          /\ has_missing_sources' = has_missing_sources
          /\ \A order \in Orders(DOMAIN missing_imports) :
                get_missing_sources_report(models', missing_imports', order)
                    = get_missing_sources_report(models, missing_imports, order)]_vars

\* After a build recorded a missing import a load declared that name: the
\* report still lists it.
C27_Witness ==
    /\ returned
    /\ ~built
    /\ has_missing_sources
    /\ \E M \in DOMAIN missing_imports :
          /\ M \in DOMAIN models
          /\ missing_imports[M] \cap defined_imports # {}
          /\ \E order \in Orders(DOMAIN missing_imports) :
                \E i \in DOMAIN get_missing_sources_report(models, missing_imports, order) :
                    get_missing_sources_report(models, missing_imports, order)[i].missing
                        \cap defined_imports # {}

\* C28: for the records and upstream sets of the collection every order of
\* visiting the records inside the passes of calculate_model_depths ends
\* with the same depth, or no depth, for every record, and decides alike
\* whether the loop returns.
C28_DepthsOrderIndependent ==
    \A first \in Orders(DOMAIN models) : \A second \in Orders(DOMAIN models) :
        calculate_model_depths_of(models, first)
            = calculate_model_depths_of(models, second)

\* Three records in a chain with a shortcut, built: the depths are 0, 1, 2
\* whichever order visits them, the deepest record being visited before or
\* after the one it depends on.
C28_Witness ==
    /\ AfterBuild
    /\ Cardinality(DOMAIN models) = 3
    /\ \E top \in DOMAIN models : \E mid \in DOMAIN models :
          /\ models[top].depth = 2
          /\ models[mid].depth = 1
          /\ mid \in models[top].upstream_models
          /\ \E low \in models[top].upstream_models : models[low].depth = 0
          /\ \A order \in Orders(DOMAIN models) :
                calculate_model_depths_of(models, order).models[top].depth = 2

\* ------------------------------------------------------------------------
\* commands/parse.rs: the cycle check of the parse command
\* ------------------------------------------------------------------------

\* has_cycle: [outcome, visited, path]; outcome is "true", "false", or
\* "panic" when visited[dep] indexes a key the map lacks.
RECURSIVE has_cycle(_, _, _, _)
RECURSIVE VisitDependencies(_, _, _, _, _)
VisitDependencies(graph, dependencies, i, visited, path) ==
    IF i > Len(dependencies)
    THEN [outcome |-> "false", visited |-> visited,
          path |-> SubSeq(path, 1, Len(path) - 1)]
    ELSE LET dep == dependencies[i]
         IN  IF dep \in {path[k] : k \in DOMAIN path}
             THEN [outcome |-> "true", visited |-> visited, path |-> path]
             ELSE IF dep \notin DOMAIN visited
             THEN [outcome |-> "panic", visited |-> visited, path |-> path]
             ELSE IF ~visited[dep]
             THEN LET below == has_cycle(graph, dep, visited, path)
                  IN  IF below.outcome # "false" THEN below
                      ELSE VisitDependencies(graph, dependencies, i + 1,
                                             below.visited, below.path)
             ELSE VisitDependencies(graph, dependencies, i + 1, visited, path)

has_cycle(graph, current, visited, path) ==
    IF current \in DOMAIN graph
    THEN VisitDependencies(graph, graph[current], 1,
                           (current :> TRUE) @@ visited, Append(path, current))
    ELSE [outcome |-> "false", visited |-> (current :> TRUE) @@ visited,
          path |-> path]

\* check_for_cycles; start_nodes is graph.keys() in its iteration order.
RECURSIVE check_for_cycles(_, _)
check_for_cycles(graph, start_nodes) ==
    IF start_nodes = <<>> THEN [kind |-> "Ok", start_node |-> ""]
    ELSE LET found == has_cycle(graph, Head(start_nodes),
                                [node \in DOMAIN graph |-> FALSE], <<>>)
         IN  CASE found.outcome = "true" ->
                    [kind |-> "Err", start_node |-> Head(start_nodes)]
               [] found.outcome = "panic" ->
                    [kind |-> "panic", start_node |-> Head(start_nodes)]
               [] OTHER -> check_for_cycles(graph, Tail(start_nodes))

\* The SQL files of a models directory as parse_sql_file returns them: the
\* file stem and the table names the statements mention, in order.
ParsedModel(name, referenced_tables) ==
    [name |-> name, referenced_tables |-> referenced_tables]

MentionedTables ==
    {<<>>, <<"s.a">>, <<"b">>, <<"s.c">>, <<"raw.x">>,
     <<"s.a", "b">>, <<"b", "s.a">>, <<"s.a", "s.c">>, <<"s.c", "s.a">>,
     <<"b", "s.c">>, <<"s.c", "b">>}

\* Files a, b, c; files a and b; two files of the stem a.
ParsedDirectories ==
    {<<ParsedModel("a", ra), ParsedModel("b", rb), ParsedModel("c", rc)>> :
        ra \in MentionedTables, rb \in MentionedTables, rc \in MentionedTables}
    \cup {<<ParsedModel("a", ra), ParsedModel(second, rb)>> :
            ra \in MentionedTables, rb \in MentionedTables, second \in {"a", "b"}}

\* parse_command: the internal graph is built and checked for cycles.
parse_command ==
    /\ result = NoResult
    /\ \E internal_model_graph \in parse_build_dependency_graph(fs.parsed, FALSE) :
        \E start_nodes \in Orders(DOMAIN internal_model_graph) :
            result' = [fn |-> "parse_command",
                       internal_model_graph |-> internal_model_graph,
                       check |-> check_for_cycles(internal_model_graph, start_nodes)]
    /\ UNCHANGED <<models, child_map, parent_map, defined_imports,
                   missing_imports, built, returned, ops, key_order, rebuilt,
                   ast, fs>>

InitParse ==
    /\ models = [k \in {} |-> NewModel("model.x.a", NoSchema, {})]
    /\ child_map = EmptyMap
    /\ parent_map = EmptyMap
    /\ defined_imports = {}
    /\ missing_imports = EmptyMap
    /\ built = FALSE
    /\ returned = TRUE
    /\ ops = 0
    /\ key_order = NoOrder
    /\ rebuilt = FALSE
    /\ ast = <<>>
    /\ fs \in {[root |-> <<"/", "m">>, parsed |-> parsed] : parsed \in ParsedDirectories}
    /\ result = NoResult

NextParse == parse_command

\* The parse command on every models directory of the bounded family.
SpecParse == InitParse /\ [][NextParse]_vars

\* The nodes a walk along dependency edges reaches from the nodes of S.
RECURSIVE ReachableFrom(_, _)
ReachableFrom(graph, S) ==
    LET next == S \cup UNION {Range(graph[n]) : n \in S \cap DOMAIN graph}
    IN  IF next = S THEN S ELSE ReachableFrom(graph, next)

\* The graph has a directed cycle.
HasDirectedCycle(graph) ==
    \E n \in DOMAIN graph : n \in ReachableFrom(graph, Range(graph[n]))

\* C29: check_for_cycles on the internal graph of the parse command returns
\* an error if and only if the graph has a directed cycle, and never indexes
\* its visited map with a missing key: every dependency of the internal
\* graph is a key of the graph and no model depends on itself.
C29_CycleCheckExact ==
    result.fn = "parse_command" =>
        /\ result.check.kind # "panic"
        /\ (result.check.kind = "Err") <=> HasDirectedCycle(result.internal_model_graph)
        /\ \A name \in DOMAIN result.internal_model_graph :
              /\ Range(result.internal_model_graph[name])
                    \subseteq DOMAIN result.internal_model_graph
              /\ name \notin Range(result.internal_model_graph[name])

\* The check returned an error for a graph where c depends on a and b, a
\* on b and b on c: a cycle through three models.
C29_Witness ==
    /\ result.fn = "parse_command"
    /\ result.check.kind = "Err"
    /\ DOMAIN result.internal_model_graph = {"a", "b", "c"}
    /\ Range(result.internal_model_graph["a"]) = {"b"}
    /\ Range(result.internal_model_graph["b"]) = {"c"}
    /\ Range(result.internal_model_graph["c"]) = {"a", "b"}

====
